---------------------------- MODULE Spec2Model ----------------------------
(***************************************************************************)
(* A model of tcfw/go-migrate (package migrate, migrations.go and          *)
(* simple.go): the tracking-key derivation, the date ordering, the         *)
(* reconciliation against the tracking table and the transactional up and  *)
(* down runners, driven by one runner (Spec, SpecUnit and the            *)
(* specifications for single calls, long names, ordering and round trips)  *)
(* or by two runners sharing one database (SpecConc).                      *)
(*                                                                         *)
(* The database is the opaque transactional resource of the code: a        *)
(* committed state (the rows of the migrations table and the schema        *)
(* changes made by the increments) and, per open transaction, the list of  *)
(* writes not yet committed.  Every database call and every increment the  *)
(* caller supplied may fail.                                               *)
(***************************************************************************)
EXTENDS Integers, Sequences, FiniteSets, Bags, TLC

VARIABLES
    db,      \* the committed database: [table, schema]
    run,     \* per runner: the position and the locals of its invocation
    calls    \* how many invocations have been started

vars == <<db, run, calls>>

-----------------------------------------------------------------------------
(* Bounds of the model *)

\* the longest candidate collection handed to an invocation
MaxLen == 2

\* the number of invocations started in one behaviour
MaxCalls == 2

\* how far past KeyMax bytes the longest name of SpecKey goes
MaxOver == 100

(* Program constants *)

\* the width of the migrations.migration column, and dbName's cut
KeyMax == 500

-----------------------------------------------------------------------------
(* Migration units: simple.go's SimpleMigration.  date is a time.Time,     *)
(* kept as whole seconds and the nanoseconds within the second; up and     *)
(* down say whether the increment function is set.                         *)

SimpleMigration(name, sec, nsec, up, down) ==
    [name |-> name, date |-> [sec |-> sec, nsec |-> nsec], up |-> up, down |-> down]

\* "a" and "b" share a date (the repository's TestMigrate); the second "a", of
\* the same second and a later nanosecond, shares the tracking key of the
\* first; "b" has no up function and the second "a" no down function.
Units ==
    { SimpleMigration("a", 1, 0, TRUE, TRUE),
      SimpleMigration("b", 1, 0, FALSE, TRUE),
      SimpleMigration("a", 1, 5, TRUE, FALSE) }

\* Date(): the creation time of the unit
Date(mig) == mig.date

\* Name(): the human readable name
Name(mig) == mig.name

\* time.Time.Unix(): the whole seconds, the nanoseconds dropped
Unix(d) == d.sec

\* time.Time.Before
Before(d, e) == d.sec < e.sec \/ (d.sec = e.sec /\ d.nsec < e.nsec)

-----------------------------------------------------------------------------
(* Strings *)

Digit(d) ==
    CASE d = 0 -> "0" [] d = 1 -> "1" [] d = 2 -> "2" [] d = 3 -> "3"
      [] d = 4 -> "4" [] d = 5 -> "5" [] d = 6 -> "6" [] d = 7 -> "7"
      [] d = 8 -> "8" [] d = 9 -> "9"

RECURSIVE FormatNat(_)
FormatNat(k) ==
    IF k < 10 THEN Digit(k) ELSE FormatNat(k \div 10) \o Digit(k % 10)

\* fmt's %d of an integer
FormatInt(k) == IF k < 0 THEN "-" \o FormatNat(0 - k) ELSE FormatNat(k)

\* whether sub occurs in s
Contains(s, sub) ==
    \E i \in 1..(Len(s) - Len(sub) + 1) : SubSeq(s, i, i + Len(sub) - 1) = sub

Min(a, b) == IF a < b THEN a ELSE b

\* as dbName, without the cut
dbNameUncut(mig) == FormatInt(Unix(Date(mig))) \o "_" \o Name(mig)

\* dbName: "<unix seconds>_<name>", cut to the first KeyMax characters
dbName(mig) ==
    LET migStr == FormatInt(Unix(Date(mig))) \o "_" \o Name(mig)
        n      == Min(Len(migStr), KeyMax)
    IN  SubSeq(migStr, 1, n)

-----------------------------------------------------------------------------
(* Names long enough for the cut.  A Go string is a sequence of bytes and   *)
(* len and [:n] count bytes: a string here holds one character for a byte, *)
(* "x" a character of one byte and "Ww" the two bytes of one character     *)
(* (the lead byte and the continuation byte of its UTF-8 encoding).        *)

\* s, n times over (the loop that builds longName in TestTruncatedDbName)
RECURSIVE Repeat(_, _)
Repeat(s, n) ==
    IF n = 0 THEN ""
    ELSE LET h == Repeat(s, n \div 2)
         IN  IF n % 2 = 1 THEN h \o h \o s ELSE h \o h

\* The names of SpecKey: with the ten digits and the "_" of a date of 2020 the
\* key is KeyMax - 1, KeyMax and KeyMax + 1 bytes long, and the same with "-5_";
\* and names of two-byte characters, cut inside a character, and at
\* KeyMax bytes though shorter than KeyMax characters.
LongNames ==
    { Repeat("x", k) : k \in { 1, KeyMax - 12, KeyMax - 11, KeyMax - 10,
                               KeyMax - 3, KeyMax - 2, KeyMax + MaxOver } }
        \cup { Repeat("Ww", k) : k \in { KeyMax \div 2 - 5, (KeyMax + MaxOver) \div 2 } }

\* 2020-09-09T20:52:05+10:00 of TestDbName, and a date before 1970
KeyDates == { [sec |-> 1599648725, nsec |-> 0], [sec |-> 0 - 5, nsec |-> 0] }

KeyUnits ==
    { SimpleMigration(name, d.sec, d.nsec, TRUE, TRUE) : name \in LongNames, d \in KeyDates }

-----------------------------------------------------------------------------
(* Ordering *)

\* as Less, by the whole seconds of the dates
LessBySeconds(a, b) == Unix(Date(a)) < Unix(Date(b))

\* MigrationList.Less: by date alone
Less(a, b) == Before(Date(a), Date(b))

IsSorted(s) == \A i, j \in 1..Len(s) : i < j => ~Less(s[j], s[i])

Reorderings(s) ==
    LET n == Len(s)
    IN  { [i \in 1..n |-> s[f[i]]] :
            f \in { g \in [1..n -> 1..n] : \A i, j \in 1..n : g[i] = g[j] => i = j } }

\* as sortMigrations, the copy returned as it is
Unsorted(migs) == { migs }

\* sortMigrations: the results sort.Sort may give for a copy of migs.  sort.Sort
\* is not stable, so units of equal date come out in any order.
sortMigrations(migs) == { s \in Reorderings(migs) : IsSorted(s) }

\* as SortedCopy, sort.Sort run on migs itself: the caller's slice is sorted too
SortedInPlace(migs) == { [sorted |-> s, migs |-> s] : s \in sortMigrations(migs) }

\* The call sorted := sortMigrations(migs): what it may return, and what the
\* slice migs of the caller holds after it (the sort is made on a copy).
SortedCopy(migs) == { [sorted |-> s, migs |-> migs] : s \in sortMigrations(migs) }

-----------------------------------------------------------------------------
(* The database *)

\* The committed state: the rows of the migrations table (a bag of tracking
\* keys: the column has no uniqueness constraint) and the schema changes the
\* increments made (a bag of <<direction, unit>>).
Database(table, schema) == [table |-> table, schema |-> schema]

\* One write of an open transaction, applied to a database state.
ApplyWrite(d, w) ==
    CASE w[1] = "insert" -> [d EXCEPT !.table = @ (+) SetToBag({w[2]})]
      [] w[1] = "delete" ->
            [d EXCEPT !.table = [k \in DOMAIN @ \ {w[2]} |-> @[k]]]
      [] w[1] = "schema" -> [d EXCEPT !.schema = @ (+) SetToBag({w[2]})]

RECURSIVE ApplyWrites(_, _)
ApplyWrites(d, tx) ==
    IF tx = <<>> THEN d ELSE ApplyWrites(ApplyWrite(d, Head(tx)), Tail(tx))

\* tx.Commit() that succeeds: the writes of the transaction become durable
TxCommit(d, tx) == ApplyWrites(d, tx)

\* tx.Rollback(), and a Commit that fails: the writes are dropped
TxRollback(d, tx) == d

\* the tracking keys with at least one row
TableKeys(d) == DOMAIN d.table

Rows(d, key) == IF key \in DOMAIN d.table THEN d.table[key] ELSE 0

Applied(d, mig) ==
    IF <<"up", mig>> \in DOMAIN d.schema THEN d.schema[<<"up", mig>>] ELSE 0

-----------------------------------------------------------------------------
(* Errors: the text of the error returned *)

Nil == "<nil>"

\* as FailedToUp, the key left out of the text
FailedToUpNoKey(name, err) == "Failed to up: " \o err

\* fmt.Errorf("Failed to up %s: %s", name, err)
FailedToUp(name, err) == "Failed to up " \o name \o ": " \o err

\* fmt.Errorf("Failed to down %s: %s", name, err)
FailedToDown(name, err) == "Failed to down " \o name \o ": " \o err

-----------------------------------------------------------------------------
(* Invocations *)

\* the only runner of Spec, and the two runners of SpecConc
Main == "r1"
Runners == {"r1", "r2"}

\* The candidate collections handed in: up to MaxLen units, none twice.
Collections ==
    UNION { { s \in [1..k -> Units] : \A i, j \in 1..k : s[i] = s[j] => i = j } :
            k \in 0..MaxLen }

\* What an invocation remembers of the one before it, kept when it is called with
\* the same arguments.
NoPrev ==
    [op |-> "none", toRun |-> <<>>, result |-> Nil, began |-> FALSE,
     readFault |-> "none", before |-> Database(EmptyBag, EmptyBag), sorted |-> <<>>]

Summary(r) ==
    [op |-> r.op, toRun |-> r.toRun, result |-> r.result, began |-> r.began,
     readFault |-> r.readFault, before |-> r.before, sorted |-> r.sorted]

\* A runner that is in no invocation.  migs and argn are the arguments as they
\* were when the call was made; list is the slice migs that migrateUpN and
\* migrateDownN were handed, as it is now, and n their n; i counts from 0;
\* before is the database when the invocation was made and seen the rows its
\* query was answered from.
Idle(d) ==
    [pc |-> "idle", op |-> "none", migs |-> <<>>, argn |-> 0, toRun |-> <<>>,
     readFault |-> "none", list |-> <<>>, n |-> 0, sorted |-> <<>>, i |-> 0,
     tx |-> <<>>, open |-> FALSE, began |-> FALSE, trace |-> <<>>,
     result |-> Nil, before |-> d, seen |-> EmptyBag, prev |-> NoPrev]

\* The locals of a fresh invocation of op on d.
Enter(r, d, op, pc, migs, n) ==
    [Idle(d) EXCEPT !.pc = pc, !.op = op, !.migs = migs, !.argn = n,
                    !.list = migs, !.n = n,
                    !.prev = IF r.pc = "done" /\ r.migs = migs /\ r.argn = n
                             THEN Summary(r) ELSE NoPrev]

\* return err
Return(r, err) == [r EXCEPT !.pc = "done", !.result = err]

Called(r, event) == [r EXCEPT !.trace = Append(@, event)]

Free(p) == run[p].pc \in {"idle", "done"} /\ calls < MaxCalls

\* Migrate(db, log, migs) is called
Migrate(p) ==
    /\ Free(p)
    /\ \E migs \in Collections :
          run' = [run EXCEPT ![p] = Enter(@, db, "Migrate", "check", migs, 0)]
    /\ calls' = calls + 1
    /\ UNCHANGED db

\* needsToRun(db, migs) is called on its own
needsToRun(p) ==
    /\ Free(p)
    /\ \E migs \in Collections :
          run' = [run EXCEPT ![p] = Enter(@, db, "needsToRun", "reconcile", migs, 0)]
    /\ calls' = calls + 1
    /\ UNCHANGED db

\* migrateUpN(db, log, migs, n) is called on its own, as the tests do; n past
\* the length of migs indexes out of range and is left out
migrateUpN(p) ==
    /\ Free(p)
    /\ \E migs \in Collections, n \in 0..MaxLen :
          /\ n <= Len(migs)
          /\ run' = [run EXCEPT ![p] = Enter(@, db, "migrateUpN", "begin", migs, n)]
    /\ calls' = calls + 1
    /\ UNCHANGED db

\* migrateDownN(db, log, migs, n) is called on its own
migrateDownN(p) ==
    /\ Free(p)
    /\ \E migs \in Collections, n \in 0..MaxLen :
          /\ n <= Len(migs)
          /\ run' = [run EXCEPT ![p] = Enter(@, db, "migrateDownN", "begin", migs, n)]
    /\ calls' = calls + 1
    /\ UNCHANGED db

-----------------------------------------------------------------------------
(* Migrate: the tracking table, then the reconciliation *)

At(p, pc) == run[p].pc = pc

\* checkMigrationTable: CREATE TABLE IF NOT EXISTS, outside any transaction.  A
\* table that is absent is held as the table without rows.
checkMigrationTable(p) ==
    /\ At(p, "check")
    /\ \/ run' = [run EXCEPT ![p] =
                    [Called(@, <<"Exec", "CREATE TABLE", "ok">>) EXCEPT !.pc = "reconcile"]]
       \/ run' = [run EXCEPT ![p] =
                    Return(Called(@, <<"Exec", "CREATE TABLE", "err">>), "create failed")]
    /\ UNCHANGED <<db, calls>>

\* The map hasRun that the loop over the cursor leaves, for each way the read
\* can go.  Next() ends the loop at the last row or at an error, which is not
\* looked at (no Err() call); the error of Scan is dropped as well and the row
\* then sets hasRun[""].  fault: "none", "iter" (Next stopped at an error),
\* "scan" (a Scan failed).
Reads(d) ==
    { rd \in [hasRun : SUBSET (TableKeys(d) \cup {""}), fault : {"none", "iter", "scan"}] :
        /\ rd.fault = "none" => rd.hasRun = TableKeys(d)
        /\ rd.fault = "iter" => "" \notin rd.hasRun
        /\ rd.fault = "scan" =>
              /\ "" \in rd.hasRun
              /\ \/ rd.hasRun # TableKeys(d) \cup {""}
                 \/ \E k \in TableKeys(d) : d.table[k] > 1 }

\* the loop of needsToRun over migs: the units whose key is not in hasRun, in
\* the order of migs
Unapplied(hasRun, migs) == SelectSeq(migs, LAMBDA m : dbName(m) \notin hasRun)

\* as QueryFailed, the error dropped and every candidate taken as unapplied
QueryFailedGoesOn(r) ==
    [Called(r, <<"Query", "SELECT * FROM migrations", "err">>)
        EXCEPT !.pc = "begin", !.toRun = r.migs, !.list = r.migs, !.n = Len(r.migs)]

\* after the query of needsToRun failed: return nil, err
QueryFailed(r) ==
    Return(Called(r, <<"Query", "SELECT * FROM migrations", "err">>), "query failed")

\* after needsToRun's loops: return toRun, nil, and in Migrate the log line and
\* the call migrateUpN(db, log, toRun, len(toRun))
Reconciled(r, d, rd) ==
    LET toRun == Unapplied(rd.hasRun, r.migs)
        q == [Called(r, <<"Query", "SELECT * FROM migrations", "ok">>)
                EXCEPT !.toRun = toRun, !.readFault = rd.fault, !.seen = d.table]
    IN  IF r.op = "needsToRun"
        THEN Return(q, Nil)
        ELSE [Called(q, <<"Info", "Running migrations...", Len(toRun)>>)
                EXCEPT !.pc = "begin", !.list = toRun, !.n = Len(toRun)]

\* the body of needsToRun
Reconcile(p) ==
    /\ At(p, "reconcile")
    /\ \/ run' = [run EXCEPT ![p] = QueryFailed(@)]
       \/ \E rd \in Reads(db) : run' = [run EXCEPT ![p] = Reconciled(@, db, rd)]
    /\ UNCHANGED <<db, calls>>

-----------------------------------------------------------------------------
(* migrateUpN and migrateDownN *)

Up(r) == r.op \in {"Migrate", "migrateUpN"}

\* sort.Sort is a function of its input, whatever it does with units of one
\* date: a call that sorts the list the invocation before it sorted gets
\* the order that one got.
SortsAsBefore(r, sorted) ==
    (r.prev.began /\ r.list = (IF r.prev.op = "Migrate" THEN r.prev.toRun ELSE r.migs)) =>
        sorted = r.prev.sorted

\* db.Begin(), then sortMigrations(migs) and the start of the loop
Begin(p) ==
    /\ At(p, "begin")
    /\ \/ run' = [run EXCEPT ![p] = Return(Called(@, <<"Begin", "err">>), "begin failed")]
       \/ \E s \in SortedCopy(run[p].list) :
             /\ SortsAsBefore(run[p], s.sorted)
             /\ run' = [run EXCEPT ![p] =
                         [Called(@, <<"Begin", "ok">>) EXCEPT
                             !.pc = "loop", !.open = TRUE, !.began = TRUE,
                             !.sorted = s.sorted, !.list = s.migs,
                             !.i = IF Up(run[p]) THEN 0 ELSE Len(s.sorted) - 1]]
    /\ UNCHANGED <<db, calls>>

\* What a step leaves: the runner's locals and the committed database.
World(r, d) == [r |-> r, db |-> d]

Becomes(p, w) == run' = [run EXCEPT ![p] = w.r] /\ db' = w.db

\* tx.Rollback() and return err
RollbackAndReturn(r, d, err) ==
    World(Return([Called(r, <<"Rollback">>) EXCEPT !.open = FALSE, !.tx = <<>>], err),
          TxRollback(d, r.tx))

\* SimpleMigration.Up / Down with the function set: the increment ran on the
\* transaction
Incremented(r, dir, mig) ==
    [r EXCEPT !.tx = Append(@, <<"schema", <<dir, mig>>>>)]

\* as UpDone, without the test of tm.up
UpDoneUnchecked(r, mig) == Incremented(Called(r, <<"Up", mig, "ok">>), "up", mig)

\* SimpleMigration.Up returned nil: tm.up ran, or nothing when it is not set
UpDone(r, mig) ==
    IF mig.up THEN Incremented(Called(r, <<"Up", mig, "ok">>), "up", mig)
    ELSE Called(r, <<"Up", mig, "ok">>)

\* SimpleMigration.Down returned nil: tm.down ran, or nothing when it is not set
DownDone(r, mig) ==
    IF mig.down THEN Incremented(Called(r, <<"Down", mig, "ok">>), "down", mig)
    ELSE Called(r, <<"Down", mig, "ok">>)

\* as UpFailed, without tx.Rollback(): the transaction is left open
UpFailedNoRollback(r, d, mig) ==
    World(Return(Incremented(Called(r, <<"Up", mig, "err">>), "up, in part", mig),
                 FailedToUp(dbName(mig), "up failed")), d)

\* as UpFailed, with tx.Commit() where tx.Rollback() is
UpFailedCommits(r, d, mig) ==
    LET u == Incremented(Called(r, <<"Up", mig, "err">>), "up, in part", mig)
    IN  World(Return([Called(u, <<"Rollback">>) EXCEPT !.open = FALSE, !.tx = <<>>],
                     FailedToUp(dbName(mig), "up failed")),
              TxCommit(d, u.tx))

\* sorted[i].Up(tx) returned an error, some of its statements may have run:
\* roll back and return the error with the key
UpFailed(r, d, mig) ==
    RollbackAndReturn(
        Incremented(Called(r, <<"Up", mig, "err">>), "up, in part", mig), d,
        FailedToUp(dbName(mig), "up failed"))

\* the INSERT failed: roll back and return its error
InsertFailed(r, d, mig) ==
    RollbackAndReturn(
        Called(UpDone(r, mig), <<"Exec", "INSERT", dbName(mig), "err">>), d,
        "insert failed")

\* as Inserted, with the DELETE of migrateDownN where the INSERT is
InsertedAsDelete(r, d, mig) ==
    LET name == dbName(mig)
        u == Called(UpDone(r, mig), <<"Exec", "DELETE", name, "ok">>)
    IN  World([Called(u, <<"Info", "Up'd", name, r.i + 1, r.n>>)
                 EXCEPT !.tx = Append(@, <<"delete", name>>), !.i = r.i + 1], d)

\* as Inserted, the INSERT left out
InsertedNoRow(r, d, mig) ==
    World([Called(UpDone(r, mig), <<"Info", "Up'd", dbName(mig), r.i + 1, r.n>>)
             EXCEPT !.i = r.i + 1], d)

\* Up returned nil and the INSERT went through: the log line, and i++
Inserted(r, d, mig) ==
    LET name == dbName(mig)
        u == Called(UpDone(r, mig), <<"Exec", "INSERT", name, "ok">>)
    IN  World([Called(u, <<"Info", "Up'd", name, r.i + 1, r.n>>)
                 EXCEPT !.tx = Append(@, <<"insert", name>>), !.i = r.i + 1], d)

\* one pass of migrateUpN's loop
UpStep(p) ==
    LET r == run[p]
        mig == r.sorted[r.i + 1]
    IN  /\ At(p, "loop") /\ Up(r) /\ r.i < r.n
        /\ \/ mig.up /\ Becomes(p, UpFailed(r, db, mig))
           \/ Becomes(p, InsertFailed(r, db, mig))
           \/ Becomes(p, Inserted(r, db, mig))
        /\ UNCHANGED calls

\* sorted[i].Down(tx) returned an error: roll back and return the error with
\* the key
DownFailed(r, d, mig) ==
    RollbackAndReturn(
        Incremented(Called(r, <<"Down", mig, "err">>), "down, in part", mig), d,
        FailedToDown(dbName(mig), "down failed"))

\* the DELETE failed: roll back and return its error
DeleteFailed(r, d, mig) ==
    RollbackAndReturn(
        Called(DownDone(r, mig), <<"Exec", "DELETE", dbName(mig), "err">>), d,
        "delete failed")

\* as Deleted, the DELETE left out
DeletedNoRow(r, d, mig) ==
    World([Called(DownDone(r, mig), <<"Info", "Down'd", dbName(mig), r.i, r.n>>)
             EXCEPT !.i = r.i - 1], d)

\* as Deleted, the row looked up by the name of the unit, not by its key
DeletedByName(r, d, mig) ==
    LET u == Called(DownDone(r, mig), <<"Exec", "DELETE", Name(mig), "ok">>)
    IN  World([Called(u, <<"Info", "Down'd", Name(mig), r.i, r.n>>)
                 EXCEPT !.tx = Append(@, <<"delete", Name(mig)>>), !.i = r.i - 1], d)

\* Down returned nil and the DELETE went through: the log line, and i--
Deleted(r, d, mig) ==
    LET name == dbName(mig)
        u == Called(DownDone(r, mig), <<"Exec", "DELETE", name, "ok">>)
    IN  World([Called(u, <<"Info", "Down'd", name, r.i, r.n>>)
                 EXCEPT !.tx = Append(@, <<"delete", name>>), !.i = r.i - 1], d)

\* the condition of migrateDownN's loop
DownMore(r) == r.i > Len(r.sorted) - 1 - r.n

\* one pass of migrateDownN's loop
DownStep(p) ==
    LET r == run[p]
        mig == r.sorted[r.i + 1]
    IN  /\ At(p, "loop") /\ ~Up(r) /\ DownMore(r)
        /\ \/ mig.down /\ Becomes(p, DownFailed(r, db, mig))
           \/ Becomes(p, DeleteFailed(r, db, mig))
           \/ Becomes(p, Deleted(r, db, mig))
        /\ UNCHANGED calls

\* the loop is over
LoopDone(r) == IF Up(r) THEN ~(r.i < r.n) ELSE ~DownMore(r)

\* as Committed, with return nil where return tx.Commit() is
CommitSkipped(r, d) == World(Return([r EXCEPT !.open = FALSE, !.tx = <<>>], Nil), d)

\* return tx.Commit(), which went through: the writes are durable
Committed(r, d) ==
    World(Return([Called(r, <<"Commit", "ok">>) EXCEPT !.open = FALSE, !.tx = <<>>], Nil),
          TxCommit(d, r.tx))

\* return tx.Commit(), which failed: the writes are dropped
CommitFailed(r, d) ==
    World(Return([Called(r, <<"Commit", "err">>) EXCEPT !.open = FALSE, !.tx = <<>>],
                 "commit failed"),
          TxRollback(d, r.tx))

\* the end of migrateUpN and migrateDownN
Commit(p) ==
    /\ At(p, "loop") /\ LoopDone(run[p])
    /\ \/ Becomes(p, Committed(run[p], db))
       \/ Becomes(p, CommitFailed(run[p], db))
    /\ UNCHANGED calls

-----------------------------------------------------------------------------
(* Specifications *)

\* the keys of the units
Keys == { dbName(u) : u \in Units }

\* Any rows of the units' keys are in the table at the start; no increment
\* has been counted yet.
InitDb == { Database(SetToBag(ks), EmptyBag) : ks \in SUBSET Keys }

Init ==
    /\ db \in InitDb
    /\ run = [p \in {Main} |-> Idle(db)]
    /\ calls = 0

\* the steps of Migrate
Step(p) ==
    \/ checkMigrationTable(p)
    \/ Reconcile(p)
    \/ Begin(p)
    \/ UpStep(p)
    \/ Commit(p)

\* The package through its one exported function: one runner calls Migrate
\* again and again, each invocation ending before the next is made.
Next ==
    \/ Migrate(Main)
    \/ Step(Main)

Spec == Init /\ [][Next]_vars

\* The unexported functions called on their own, as the package's tests call
\* them, one call ending before the next is made.
NextUnit ==
    \/ needsToRun(Main)
    \/ migrateUpN(Main)
    \/ migrateDownN(Main)
    \/ Reconcile(Main)
    \/ Begin(Main)
    \/ UpStep(Main)
    \/ DownStep(Main)
    \/ Commit(Main)

SpecUnit == Init /\ [][NextUnit]_vars

\* One invocation of any of the four functions, on any table.
NextOnce ==
    \/ At(Main, "idle") /\ Migrate(Main)
    \/ At(Main, "idle") /\ needsToRun(Main)
    \/ At(Main, "idle") /\ migrateUpN(Main)
    \/ At(Main, "idle") /\ migrateDownN(Main)
    \/ Step(Main)
    \/ DownStep(Main)

SpecOnce == Init /\ [][NextOnce]_vars

\* The unexported functions called on one unit of a long name, the table empty
\* at the start.
InitKey ==
    /\ db = Database(EmptyBag, EmptyBag)
    /\ run = [p \in {Main} |-> Idle(db)]
    /\ calls = 0

\* migrateUpN(db, log, MigrationList{u}, 1)
KeyUp(p) ==
    /\ Free(p)
    /\ \E u \in KeyUnits :
          run' = [run EXCEPT ![p] = Enter(@, db, "migrateUpN", "begin", <<u>>, 1)]
    /\ calls' = calls + 1
    /\ UNCHANGED db

\* migrateDownN(db, log, MigrationList{u}, 1)
KeyDown(p) ==
    /\ Free(p)
    /\ \E u \in KeyUnits :
          run' = [run EXCEPT ![p] = Enter(@, db, "migrateDownN", "begin", <<u>>, 1)]
    /\ calls' = calls + 1
    /\ UNCHANGED db

\* needsToRun(db, MigrationList{u})
KeyRead(p) ==
    /\ Free(p)
    /\ \E u \in KeyUnits :
          run' = [run EXCEPT ![p] = Enter(@, db, "needsToRun", "reconcile", <<u>>, 0)]
    /\ calls' = calls + 1
    /\ UNCHANGED db

NextKey ==
    \/ KeyUp(Main)
    \/ KeyDown(Main)
    \/ KeyRead(Main)
    \/ Reconcile(Main)
    \/ Begin(Main)
    \/ UpStep(Main)
    \/ DownStep(Main)
    \/ Commit(Main)

SpecKey == InitKey /\ [][NextKey]_vars

\* Units of dates all different, one pair within one second, for the ordering
SortUnits ==
    { SimpleMigration("a", 1, 0, TRUE, TRUE),
      SimpleMigration("a", 1, 5, TRUE, TRUE),
      SimpleMigration("c", 2, 0, TRUE, TRUE),
      SimpleMigration("d", 0, 9, TRUE, TRUE),
      SimpleMigration("b", 1, 0, TRUE, TRUE) }

\* the lists of up to MaxLen + 1 of them, none twice
SortCollections ==
    UNION { { s \in [1..k -> SortUnits] : \A i, j \in 1..k : s[i] = s[j] => i = j } :
            k \in 0..(MaxLen + 1) }

\* migrateUpN(db, log, list, n) on a list of SortCollections
SortUp(p) ==
    /\ At(p, "idle")
    /\ \E migs \in SortCollections, n \in 0..(MaxLen + 1) :
          /\ n <= Len(migs)
          /\ run' = [run EXCEPT ![p] = Enter(@, db, "migrateUpN", "begin", migs, n)]
    /\ calls' = calls + 1
    /\ UNCHANGED db

\* migrateDownN(db, log, list, n) on a list of SortCollections
SortDown(p) ==
    /\ At(p, "idle")
    /\ \E migs \in SortCollections, n \in 0..(MaxLen + 1) :
          /\ n <= Len(migs)
          /\ run' = [run EXCEPT ![p] = Enter(@, db, "migrateDownN", "begin", migs, n)]
    /\ calls' = calls + 1
    /\ UNCHANGED db

\* One call of a runner on a list of up to MaxLen + 1 units, the table empty.
NextSort ==
    \/ SortUp(Main)
    \/ SortDown(Main)
    \/ Begin(Main)
    \/ UpStep(Main)
    \/ DownStep(Main)
    \/ Commit(Main)

SpecSort == InitKey /\ [][NextSort]_vars

\* migrateDownN called with the list and the n of the migrateUpN that has just
\* returned
TripDown(p) ==
    /\ At(p, "done") /\ run[p].op = "migrateUpN"
    /\ run' = [run EXCEPT ![p] =
                 Enter(@, db, "migrateDownN", "begin", run[p].migs, run[p].argn)]
    /\ calls' = calls + 1
    /\ UNCHANGED db

\* migrateUpN(db, log, list, n), then migrateDownN(db, log, list, n), on a
\* list of up to MaxLen + 1 units and any table.
NextTrip ==
    \/ SortUp(Main)
    \/ TripDown(Main)
    \/ Begin(Main)
    \/ UpStep(Main)
    \/ DownStep(Main)
    \/ Commit(Main)

SpecTrip == Init /\ [][NextTrip]_vars

\* Units that share a tracking key: two of one name within one second, and two
\* whose names are the same up to the cut and differ after it; and a unit
\* of a key of its own.
SameUnits ==
    { SimpleMigration("a", 1, 0, TRUE, TRUE),
      SimpleMigration("a", 1, 5, TRUE, TRUE),
      SimpleMigration(Repeat("x", KeyMax - 2), 0 - 5, 0, TRUE, TRUE),
      SimpleMigration(Repeat("x", KeyMax + MaxOver), 0 - 5, 0, TRUE, TRUE),
      SimpleMigration("x", 0 - 5, 0, TRUE, TRUE) }

\* the lists of up to MaxLen + 1 of them, none twice
SameCollections ==
    UNION { { s \in [1..k -> SameUnits] : \A i, j \in 1..k : s[i] = s[j] => i = j } :
            k \in 0..(MaxLen + 1) }

\* any rows of their keys are in the table at the start
InitSame ==
    /\ db \in { Database(SetToBag(ks), EmptyBag) : ks \in SUBSET { dbName(u) : u \in SameUnits } }
    /\ run = [p \in {Main} |-> Idle(db)]
    /\ calls = 0

\* Migrate(db, log, migs) on a list of SameCollections
SameMigrate(p) ==
    /\ At(p, "idle")
    /\ \E migs \in SameCollections :
          run' = [run EXCEPT ![p] = Enter(@, db, "Migrate", "check", migs, 0)]
    /\ calls' = calls + 1
    /\ UNCHANGED db

\* One Migrate over candidates that may share keys.
NextSame ==
    \/ SameMigrate(Main)
    \/ Step(Main)

SpecSame == InitSame /\ [][NextSame]_vars

\* no two units of the list s have one tracking key
DistinctKeys(s) == \A i, j \in DOMAIN s : dbName(s[i]) = dbName(s[j]) => i = j

\* Migrate is called with candidates of pairwise distinct tracking keys
MigrateDistinct(p) == Migrate(p) /\ DistinctKeys(run'[p].migs)

\* Sequential use from an empty tracking table: Migrate again and again, each
\* invocation ending before the next is made, the candidates of each with
\* pairwise distinct keys.
NextSeq ==
    \/ MigrateDistinct(Main)
    \/ Step(Main)

SpecSeq == InitKey /\ [][NextSeq]_vars

\* Two runners, two instances of one program with one registered collection,
\* call Migrate on one database, once each and "r1" first; their steps
\* interleave.
InitConc ==
    /\ db \in InitDb
    /\ run = [p \in Runners |-> Idle(db)]
    /\ calls = 0

MigrateConc(p) ==
    /\ At(p, "idle")
    /\ p # Main => ~At(Main, "idle")
    /\ Migrate(p)
    /\ \A q \in Runners : run[q].op = "Migrate" => run'[p].migs = run[q].migs

NextConc == \E p \in Runners : MigrateConc(p) \/ Step(p)

SpecConc == InitConc /\ [][NextConc]_vars

TypeOK ==
    /\ calls \in 0..MaxCalls
    /\ \A p \in DOMAIN run :
          run[p].pc \in {"idle", "check", "reconcile", "begin", "loop", "done"}

-----------------------------------------------------------------------------
(* What an invocation did, read off its trace *)

IsCall(e, kind) == e[1] = kind

\* the call e returned an error
Erred(e) == ~IsCall(e, "Info") /\ e[Len(e)] = "err"

UpErr(e) == IsCall(e, "Up") /\ Erred(e)

CommitOk(e) == e = <<"Commit", "ok">>

\* a statement on the tracking table, INSERT or DELETE
RowExec(e, verb) == IsCall(e, "Exec") /\ e[2] = verb

Did(r, P(_)) == \E k \in DOMAIN r.trace : P(r.trace[k])

RECURSIVE BagOfSeq(_)
BagOfSeq(s) == IF s = <<>> THEN EmptyBag ELSE SetToBag({Head(s)}) (+) BagOfSeq(Tail(s))

\* the keys of the units of s, one for each unit
KeysOf(s) == [k \in DOMAIN s |-> dbName(s[k])]

\* the increments of direction dir that the units of s make, one for each unit
\* whose function is set
Increments(s, dir) ==
    LET set(m) == IF dir = "up" THEN m.up ELSE m.down
    IN  [k \in DOMAIN SelectSeq(s, set) |-> <<dir, SelectSeq(s, set)[k]>>]

-----------------------------------------------------------------------------
(* Claims *)

\* C1: when the Up increment of a unit of an up-batch returns an error, the
\* invocation has ended with a rollback and without a commit, it returned an
\* error, and the committed tracking table and schema are what they were
\* when the invocation was made, whatever steps had gone through before.
C1_UpBatchAtomic ==
    \A p \in DOMAIN run :
        LET r == run[p]
        IN  (Up(r) /\ Did(r, UpErr)) =>
                /\ r.pc = "done" /\ r.result # Nil /\ ~r.open
                /\ Did(r, LAMBDA e : IsCall(e, "Rollback"))
                /\ ~Did(r, LAMBDA e : IsCall(e, "Commit"))
                /\ db = r.before

\* C1's case: migrateUpN over two units, the first step went through (Up and
\* INSERT) and the Up of the second failed.
C1_Witness ==
    LET r == run[Main]
    IN  /\ r.op = "migrateUpN" /\ r.pc = "done" /\ r.n = 2 /\ r.i = 1
        /\ Did(r, UpErr)
        /\ Did(r, LAMBDA e : RowExec(e, "INSERT") /\ ~Erred(e))

\* no call of the invocation has returned an error to the code
NoneErred(r) == ~Did(r, Erred)

\* the reconciliation of the invocation has returned its list
HasReconciled(r) == Did(r, LAMBDA e : IsCall(e, "Query") /\ ~Erred(e))

\* the invocation is a Migrate that follows, with the same collection, a
\* Migrate that committed
AfterCommitted(r) ==
    r.op = "Migrate" /\ r.prev.op = "Migrate" /\ r.prev.began /\ r.prev.result = Nil

\* C2: a Migrate that follows a committed Migrate with the same collection
\* computes an empty unapplied set, invokes no Up, issues no INSERT and
\* returns no error.  Stated for the invocations none of whose calls
\* reported an error, it is violated: a cursor that stops at an error is
\* taken for the end of the rows (C8), and the units whose rows were not
\* read are run again.
C2_SecondMigrateIsEmpty ==
    LET r == run[Main]
    IN  (AfterCommitted(r) /\ NoneErred(r)) =>
            /\ HasReconciled(r) => r.toRun = <<>>
            /\ ~Did(r, LAMBDA e : IsCall(e, "Up"))
            /\ ~Did(r, LAMBDA e : RowExec(e, "INSERT"))
            /\ r.pc = "done" => r.result = Nil

\* the same, for the invocations whose read of the tracking table met no error
C2_SecondMigrateIsEmptyWhenRead ==
    LET r == run[Main]
    IN  (AfterCommitted(r) /\ NoneErred(r) /\ r.readFault = "none") =>
            /\ HasReconciled(r) => r.toRun = <<>>
            /\ ~Did(r, LAMBDA e : IsCall(e, "Up"))
            /\ ~Did(r, LAMBDA e : RowExec(e, "INSERT"))
            /\ r.pc = "done" => r.result = Nil

\* C3: needsToRun returns the candidates whose key has no row in the
\* tracking table, in the order of the collection; it leaves the table as it
\* was; and called again with no write in between it returns the same list.
\* Stated for two calls in a row that both return no error, the second does
\* not always return the list of the first: the rows the cursor did not
\* deliver before its error count as not applied (C8).
C3_Reconciliation ==
    LET r == run[Main]
    IN  (/\ r.op = "needsToRun" /\ r.pc = "done" /\ r.result = Nil
         /\ r.prev.op = "needsToRun" /\ r.prev.result = Nil) =>
            /\ r.toRun = r.prev.toRun
            /\ db = r.before /\ db = r.prev.before

\* the first half of C3 on its own, violated as well: the list returned is
\* not always the list of the candidates without a row
C3_ExactlyUnapplied ==
    LET r == run[Main]
    IN  (r.op = "needsToRun" /\ r.pc = "done" /\ r.result = Nil) =>
            r.toRun = Unapplied(TableKeys(db), r.migs)

\* the whole of C3, for the calls whose reads of the tracking table met no error
C3_ReconciliationWhenRead ==
    LET r == run[Main]
    IN  (r.op = "needsToRun" /\ r.pc = "done" /\ r.result = Nil /\ r.readFault = "none") =>
            /\ r.toRun = Unapplied(TableKeys(db), r.migs)
            /\ db = r.before
            /\ (r.prev.op = "needsToRun" /\ r.prev.result = Nil
                    /\ r.prev.readFault = "none") =>
                    r.toRun = r.prev.toRun /\ db = r.prev.before

\* C4: a Migrate that began its transaction ends either committed, with nil
\* returned and the Up increment and the tracking row of every unit of its
\* work list persisted, or with an error returned and the database as it was
\* when the invocation was made; no Migrate returns nil without a commit
\* that went through; and a Migrate that began and has not ended has its
\* transaction open and a step to take.
C4_TerminalStates ==
    LET r == run[Main]
    IN  /\ (r.op = "Migrate" /\ r.pc = "done" /\ r.began) =>
              \/ /\ r.result = Nil
                 /\ Did(r, CommitOk)
                 /\ db.table = r.before.table (+) BagOfSeq(KeysOf(r.toRun))
                 /\ db.schema = r.before.schema (+) BagOfSeq(Increments(r.toRun, "up"))
              \/ /\ r.result # Nil
                 /\ db = r.before
        /\ (r.op = "Migrate" /\ r.pc = "done" /\ r.result = Nil) => Did(r, CommitOk)
        /\ (r.op = "Migrate" /\ r.began /\ r.pc # "done") =>
              r.open /\ ENABLED (UpStep(Main) \/ Commit(Main))

\* C4's case: both terminal states, one after the other: a Migrate over two
\* unapplied units has committed, and the Migrate before it, with the same
\* collection, had begun its transaction and ended with an error.
C4_Witness ==
    LET r == run[Main]
    IN  /\ r.op = "Migrate" /\ r.pc = "done" /\ r.result = Nil /\ r.n = 2
        /\ r.prev.op = "Migrate" /\ r.prev.began /\ r.prev.result # Nil

\* C5: when the Up increment of a unit returns an error inside migrateUpN, the
\* call has returned an error whose text holds the tracking key of that unit,
\* and no Up and no statement on the tracking table follows the failed Up:
\* no INSERT for the unit, nothing for the units after it.
C5_FailFast ==
    \A p \in DOMAIN run :
        LET r == run[p]
        IN  \A k \in DOMAIN r.trace :
                (Up(r) /\ UpErr(r.trace[k])) =>
                    /\ r.pc = "done" /\ r.result # Nil
                    /\ Contains(r.result, dbName(r.trace[k][2]))
                    /\ \A j \in DOMAIN r.trace :
                          j > k => ~IsCall(r.trace[j], "Up") /\ ~IsCall(r.trace[j], "Exec")

\* C5's case: migrateUpN over two units with n = 2, the Up of the first failed:
\* a unit is left that must not be run.
C5_Witness ==
    LET r == run[Main]
    IN  /\ r.op = "migrateUpN" /\ r.pc = "done" /\ r.n = 2 /\ r.i = 0
        /\ Did(r, UpErr)

\* the calls of one kind, in the order they were made
Calls(r, kind) == SelectSeq(r.trace, LAMBDA e : IsCall(e, kind))

\* the units whose Down was invoked, in the order of the invocations
Downed(r) == [k \in DOMAIN Calls(r, "Down") |-> Calls(r, "Down")[k][2]]

\* the table without any row of the keys of the units of s
WithoutKeys(table, s) ==
    [k \in DOMAIN table \ { dbName(s[j]) : j \in DOMAIN s } |-> table[k]]

\* C6: migrateDownN(list, n) with 0 <= n <= len(list) begins one transaction
\* and invokes Down on at most n units, each once, latest date first, none of
\* the units left having a later date than one that is taken; a Down that
\* returns nil is followed at once by the DELETE of that unit's key and no
\* other DELETE is issued; a Down or a DELETE that fails is followed at once by
\* the rollback, and no commit.  When nil is returned, n units were taken,
\* the commit went through, no row of their keys is left and their Down
\* increments are persisted; when an error is returned the database is as it
\* was when the call was made.
C6_DownRunner ==
    LET r == run[Main]
        D == Downed(r)
        t == r.trace
    IN  r.op = "migrateDownN" =>
            /\ Len(D) <= r.n
            /\ Len(Calls(r, "Begin")) <= 1
            /\ \A j, k \in DOMAIN D :
                  j < k => D[j] # D[k] /\ ~Before(Date(D[j]), Date(D[k]))
            /\ \A k \in DOMAIN D :
                  \A u \in { r.migs[j] : j \in DOMAIN r.migs } \ { D[j] : j \in 1..k } :
                      ~Before(Date(D[k]), Date(u))
            /\ \A k \in DOMAIN t :
                  /\ (IsCall(t[k], "Down") /\ ~Erred(t[k])) =>
                        /\ k + 1 \in DOMAIN t
                        /\ RowExec(t[k + 1], "DELETE")
                        /\ t[k + 1][3] = dbName(t[k][2])
                  /\ RowExec(t[k], "DELETE") =>
                        IsCall(t[k - 1], "Down") /\ ~Erred(t[k - 1])
                  /\ ((IsCall(t[k], "Down") \/ IsCall(t[k], "Exec")) /\ Erred(t[k])) =>
                        /\ k + 1 = Len(t)
                        /\ IsCall(t[k + 1], "Rollback")
            /\ (r.pc = "done" /\ r.result = Nil) =>
                  /\ Len(D) = r.n
                  /\ Did(r, CommitOk)
                  /\ db.table = WithoutKeys(r.before.table, D)
                  /\ db.schema = r.before.schema (+) BagOfSeq(Increments(D, "down"))
            /\ (r.pc = "done" /\ r.result # Nil) => db = r.before
            /\ (r.pc = "done" /\ ~Did(r, Erred)) => Did(r, CommitOk)

\* C6's case: migrateDownN over two units of different dates and keys, both
\* with a row, n = 2: the later was taken first, the commit went through
\* and the rows are gone.
C6_Witness ==
    LET r == run[Main]
        D == Downed(r)
    IN  /\ r.op = "migrateDownN" /\ r.pc = "done" /\ r.result = Nil /\ r.n = 2
        /\ Before(Date(D[2]), Date(D[1]))
        /\ dbName(D[1]) # dbName(D[2])
        /\ \A k \in 1..2 : Rows(r.before, dbName(D[k])) > 0 /\ Rows(db, dbName(D[k])) = 0

\* the invocation is a Migrate that follows, with the same collection, a
\* Migrate that began its transaction and ended with an error
AfterRolledBack(r) ==
    r.op = "Migrate" /\ r.prev.op = "Migrate" /\ r.prev.began /\ r.prev.result # Nil

\* C7: the Migrate that follows a rolled back Migrate with the same collection
\* computes the unapplied set the failed one computed and, when it returns
\* nil, has applied and recorded that set.  It is violated: either of the
\* two reads may stop at an error that is taken for the end of the rows (C8).
C7_RerunAfterRollback ==
    LET r == run[Main]
    IN  (AfterRolledBack(r) /\ HasReconciled(r)) =>
            /\ r.toRun = r.prev.toRun
            /\ (r.pc = "done" /\ r.result = Nil) =>
                  /\ db.table = r.before.table (+) BagOfSeq(KeysOf(r.prev.toRun))
                  /\ db.schema = r.before.schema
                                    (+) BagOfSeq(Increments(r.prev.toRun, "up"))

\* the same, when neither read of the tracking table met an error
C7_RerunAfterRollbackWhenRead ==
    LET r == run[Main]
    IN  (AfterRolledBack(r) /\ HasReconciled(r)
            /\ r.readFault = "none" /\ r.prev.readFault = "none") =>
            /\ r.toRun = r.prev.toRun
            /\ (r.pc = "done" /\ r.result = Nil) =>
                  /\ db.table = r.before.table (+) BagOfSeq(KeysOf(r.prev.toRun))
                  /\ db.schema = r.before.schema
                                    (+) BagOfSeq(Increments(r.prev.toRun, "up"))

\* C8: when the read of the tracking table fails, at the query or at a row,
\* needsToRun returns the error and Migrate ends with it, without a
\* transaction and without an Up.  It is violated: an error that ends the
\* loop over the cursor, or that Scan returns, is never looked at, and
\* Migrate goes on with the rows read so far.
C8_ReadFailureAborts ==
    LET r == run[Main]
    IN  (Did(r, LAMBDA e : IsCall(e, "Query") /\ Erred(e)) \/ r.readFault # "none") =>
            /\ r.pc = "done" /\ r.result # Nil
            /\ ~r.began
            /\ ~Did(r, LAMBDA e : IsCall(e, "Up"))

\* the part of C8 that holds: a query that fails ends the invocation
C8_QueryFailureAborts ==
    LET r == run[Main]
    IN  Did(r, LAMBDA e : IsCall(e, "Query") /\ Erred(e)) =>
            /\ r.pc = "done" /\ r.result = "query failed"
            /\ ~r.began
            /\ ~Did(r, LAMBDA e : IsCall(e, "Up"))
            /\ db = r.before

\* the unit m is in the list s
InList(m, s) == \E k \in DOMAIN s : s[k] = m

\* both runners' Migrate returned nil, and the query of each was answered
\* from the rows that were there before either committed
BothCommittedBlind ==
    LET r1 == run["r1"]
        r2 == run["r2"]
    IN  /\ r1.op = "Migrate" /\ r1.pc = "done" /\ r1.result = Nil
        /\ r2.op = "Migrate" /\ r2.pc = "done" /\ r2.result = Nil
        /\ r1.seen = r1.before.table
        /\ r2.seen = r1.before.table

\* C9: nothing keeps two runners apart.  When both reconcile before either
\* commits and both commit, every unit that is in the work list of both has
\* had its Up increment persisted twice and its tracking key stored in two
\* more rows.
C9_BothApply ==
    \A m \in Units :
        (/\ DOMAIN run = Runners
         /\ BothCommittedBlind
         /\ InList(m, run["r1"].toRun)
         /\ InList(m, run["r2"].toRun)) =>
            /\ Rows(db, dbName(m)) >= Rows(run["r1"].before, dbName(m)) + 2
            /\ m.up => Applied(db, m) >= Applied(run["r1"].before, m) + 2

\* C9's case: the table had no row of the unit's key, both reads were
\* complete, both runners ran the unit alone and committed: it is applied
\* twice and its key is in two rows.
C9_Witness ==
    /\ DOMAIN run = Runners
    /\ BothCommittedBlind
    /\ \E m \in Units :
          /\ m.up
          /\ run["r1"].toRun = <<m>> /\ run["r2"].toRun = <<m>>
          /\ run["r1"].readFault = "none" /\ run["r2"].readFault = "none"
          /\ Rows(run["r1"].before, dbName(m)) = 0
          /\ Rows(db, dbName(m)) = 2
          /\ Applied(db, m) = 2

\* the writes a transaction holds for the unit m: its increments and the
\* statements on rows of its key
Touches(w, m) == w[1] = "schema" /\ w[2][2] = m

\* C10: the Up of a SimpleMigration whose up function is not set, and the
\* Down of one whose down function is not set, return nil and leave nothing
\* on the transaction; the step counts as done: the INSERT (the DELETE) of
\* the unit's key follows at once and, when the run commits, the row is
\* there (gone) while the schema holds no increment of the unit.
C10_UnsetIsNoOp ==
    LET r == run[Main]
        t == r.trace
        unset(e) == \/ IsCall(e, "Up") /\ ~e[2].up
                    \/ IsCall(e, "Down") /\ ~e[2].down
    IN  /\ \A k \in DOMAIN t :
              unset(t[k]) =>
                  /\ ~Erred(t[k])
                  /\ k + 1 \in DOMAIN t
                  /\ RowExec(t[k + 1], IF IsCall(t[k], "Up") THEN "INSERT" ELSE "DELETE")
                  /\ t[k + 1][3] = dbName(t[k][2])
                  /\ \A j \in DOMAIN r.tx : ~Touches(r.tx[j], t[k][2])
                  /\ (r.pc = "done" /\ r.result = Nil) =>
                        /\ \A dir \in {"up", "down", "up, in part", "down, in part"} :
                              <<dir, t[k][2]>> \in DOMAIN db.schema =>
                                  /\ <<dir, t[k][2]>> \in DOMAIN r.before.schema
                                  /\ db.schema[<<dir, t[k][2]>>]
                                        = r.before.schema[<<dir, t[k][2]>>]
                        /\ IsCall(t[k], "Up") =>
                              Rows(db, dbName(t[k][2])) > Rows(r.before, dbName(t[k][2]))
                        /\ IsCall(t[k], "Down") => Rows(db, dbName(t[k][2])) = 0

\* C10's case: migrateUpN over the unit without an up function committed: the
\* row of its key is new and the schema is as it was.
C10_Witness ==
    LET r == run[Main]
    IN  /\ r.op = "migrateUpN" /\ r.pc = "done" /\ r.result = Nil /\ r.n = 1
        /\ ~r.sorted[1].up
        /\ Rows(r.before, dbName(r.sorted[1])) = 0
        /\ Rows(db, dbName(r.sorted[1])) = 1
        /\ db.schema = r.before.schema

\* the text of the whole seconds of the dates of KeyDates
SecText(d) == IF d.sec < 0 THEN "-5" ELSE "1599648725"

\* "<unixSeconds(D)>_<S>", whole
Composed(m) == SecText(Date(m)) \o "_" \o Name(m)

\* the characters of s: the bytes that do not continue a character
CharLen(s) == Cardinality({ i \in 1..Len(s) : SubSeq(s, i, i) # "w" })

\* s is the first Len(s) bytes of c
IsPrefix(s, c) == Len(s) <= Len(c) /\ SubSeq(c, 1, Len(s)) = s

\* the unit of the Up or Down that goes before the statement k of the trace t
UnitOf(t, k) == t[k - 1][2]

\* C11 as stated, in characters: the key of every INSERT and DELETE is the
\* composed string when that has at most KeyMax characters, and its first
\* KeyMax characters otherwise.  It is violated: the cut is made at KeyMax
\* bytes, which for a name of characters of two bytes is fewer characters,
\* and may be inside a character.
C11_KeyInCharacters ==
    LET t == run[Main].trace
    IN  \A k \in DOMAIN t :
            (RowExec(t[k], "INSERT") \/ RowExec(t[k], "DELETE")) =>
                LET key == t[k][3]
                    c   == Composed(UnitOf(t, k))
                IN  /\ CharLen(c) <= KeyMax => key = c
                    /\ CharLen(c) > KeyMax =>
                          /\ IsPrefix(key, c)
                          /\ CharLen(key) = KeyMax
                          /\ SubSeq(c, Len(key) + 1, Len(key) + 1) # "w"

\* the key C11 gives the unit m, in bytes
KeyInBytes(key, m) ==
    LET c == Composed(m)
    IN  /\ Len(c) <= KeyMax => key = c
        /\ Len(c) > KeyMax => IsPrefix(key, c) /\ Len(key) = KeyMax

\* C11, in bytes: the key of every INSERT and DELETE is the composed string
\* "<unix seconds>_<name>" when that has at most KeyMax bytes and its first
\* KeyMax bytes otherwise; and needsToRun compares by the same key: it
\* leaves a unit out only when the table has a row that is the unit's key, and
\* always does when it has read the whole table.
C11_KeyInBytes ==
    LET r == run[Main]
        t == r.trace
    IN  /\ \A k \in DOMAIN t :
              (RowExec(t[k], "INSERT") \/ RowExec(t[k], "DELETE")) =>
                  KeyInBytes(t[k][3], UnitOf(t, k))
        /\ (r.op = "needsToRun" /\ r.pc = "done" /\ r.result = Nil) =>
              \A j \in DOMAIN r.migs :
                  /\ ~InList(r.migs[j], r.toRun) =>
                        \E key \in TableKeys(db) : KeyInBytes(key, r.migs[j])
                  /\ (r.readFault = "none"
                        /\ \E key \in TableKeys(db) : KeyInBytes(key, r.migs[j])) =>
                        ~InList(r.migs[j], r.toRun)

\* C11's case: a unit whose composed string is longer than KeyMax bytes was
\* applied and committed (the table was empty before), and needsToRun, having
\* read the whole table, leaves the unit out.
C11_Witness ==
    LET r == run[Main]
    IN  /\ r.op = "needsToRun" /\ r.pc = "done" /\ r.result = Nil
        /\ r.readFault = "none" /\ r.toRun = <<>>
        /\ Len(Composed(r.migs[1])) > KeyMax
        /\ Cardinality(TableKeys(db)) = 1
        /\ \A key \in TableKeys(db) : Len(key) = KeyMax

\* the units whose Up was invoked, in the order of the invocations
Upped(r) == [k \in DOMAIN Calls(r, "Up") |-> Calls(r, "Up")[k][2]]

\* the units of the list s
UnitsOf(s) == { s[k] : k \in DOMAIN s }

\* C12: migrateUpN(list, n) with 0 <= n <= len(list) invokes Up on at most n
\* units of the list, each once, in ascending order of date, and no unit left
\* is earlier than one taken; an Up that returns nil is followed at once by
\* the INSERT of that unit's key, and every INSERT follows such an Up; the
\* commit is issued after n Ups and n INSERTs went through and no call
\* failed, and a call that returns nil has committed.
C12_UpOrder ==
    LET r == run[Main]
        U == Upped(r)
        t == r.trace
        ok(kind) == Len(SelectSeq(t, LAMBDA e : IsCall(e, kind) /\ ~Erred(e)
                                                  /\ (kind = "Exec" => e[2] = "INSERT")))
    IN  r.op = "migrateUpN" =>
            /\ Len(U) <= r.n
            /\ \A j, k \in DOMAIN U :
                  j < k => U[j] # U[k] /\ ~Before(Date(U[k]), Date(U[j]))
            /\ \A k \in DOMAIN U :
                  /\ U[k] \in UnitsOf(r.migs)
                  /\ \A u \in UnitsOf(r.migs) \ { U[j] : j \in 1..k } :
                        ~Before(Date(u), Date(U[k]))
            /\ \A k \in DOMAIN t :
                  /\ (IsCall(t[k], "Up") /\ ~Erred(t[k])) =>
                        /\ k + 1 \in DOMAIN t
                        /\ RowExec(t[k + 1], "INSERT")
                        /\ t[k + 1][3] = dbName(t[k][2])
                  /\ RowExec(t[k], "INSERT") =>
                        IsCall(t[k - 1], "Up") /\ ~Erred(t[k - 1])
                  /\ IsCall(t[k], "Commit") =>
                        /\ k = Len(t)
                        /\ ok("Up") = r.n /\ ok("Exec") = r.n
                        /\ ~Did(r, LAMBDA e : Erred(e) /\ ~IsCall(e, "Commit"))
            /\ (r.pc = "done" /\ r.result = Nil) => Len(U) = r.n /\ Did(r, CommitOk)

\* C12's case: a list of two units, the later one first, and n = 1: the
\* earlier unit was applied, alone, and the call committed.
C12_Witness ==
    LET r == run[Main]
    IN  /\ r.op = "migrateUpN" /\ r.pc = "done" /\ r.result = Nil
        /\ Len(r.migs) = 2 /\ r.n = 1
        /\ Before(Date(r.migs[2]), Date(r.migs[1]))
        /\ Upped(r) = <<r.migs[2]>>
        /\ Did(r, LAMBDA e : RowExec(e, "INSERT") /\ e[3] = dbName(r.migs[2]))

\* the statement e on the tracking table returned an error
RowErr(e) == (RowExec(e, "INSERT") \/ RowExec(e, "DELETE")) /\ Erred(e)

\* C13: when the INSERT or the DELETE of a tracking row fails, the call has
\* ended with a rollback and without a commit, the database is as it was,
\* and the error returned holds the tracking key of the unit and the step,
\* as the error of a failing Up or Down does.  It is violated: the error of
\* the statement is returned as it is.
C13_WriteFailureWrapped ==
    LET r == run[Main]
        t == r.trace
    IN  \A k \in DOMAIN t :
            RowErr(t[k]) =>
                /\ r.pc = "done" /\ ~r.open
                /\ Did(r, LAMBDA e : IsCall(e, "Rollback"))
                /\ ~Did(r, LAMBDA e : IsCall(e, "Commit"))
                /\ db = r.before
                /\ Contains(r.result, t[k][3])
                /\ Contains(r.result, IF Up(r) THEN "Failed to up" ELSE "Failed to down")

\* the part of C13 that holds: the rollback, and the statement's own error
\* returned
C13_WriteFailureRollsBack ==
    LET r == run[Main]
        t == r.trace
    IN  \A k \in DOMAIN t :
            RowErr(t[k]) =>
                /\ r.pc = "done" /\ ~r.open
                /\ k + 1 = Len(t) /\ IsCall(t[k + 1], "Rollback")
                /\ db = r.before
                /\ r.result = IF Up(r) THEN "insert failed" ELSE "delete failed"

\* the invocation made none of the calls of the kinds
Never(r, kinds) == ~Did(r, LAMBDA e : e[1] \in kinds)

\* C14: a CREATE TABLE that fails ends Migrate with that error, before any
\* query, transaction or Up; a query that fails ends Migrate (and needsToRun)
\* with that error, before any transaction or Up; a Begin that fails ends
\* migrateUpN and migrateDownN with that error, before any increment,
\* statement, commit or rollback; and the database is as it was.
C14_EarlyAborts ==
    LET r == run[Main]
        t == r.trace
    IN  \A k \in DOMAIN t :
            /\ (RowExec(t[k], "CREATE TABLE") /\ Erred(t[k])) =>
                  /\ k = 1 /\ Len(t) = 1
                  /\ r.pc = "done" /\ r.result = "create failed"
                  /\ ~r.began /\ db = r.before
            /\ (IsCall(t[k], "Query") /\ Erred(t[k])) =>
                  /\ k = Len(t)
                  /\ r.pc = "done" /\ r.result = "query failed"
                  /\ Never(r, {"Begin", "Up", "Down", "Commit", "Rollback"})
                  /\ ~r.began /\ db = r.before
            /\ (IsCall(t[k], "Begin") /\ Erred(t[k])) =>
                  /\ k = Len(t)
                  /\ r.pc = "done" /\ r.result = "begin failed"
                  /\ Never(r, {"Up", "Down", "Commit", "Rollback"})
                  /\ ~Did(r, LAMBDA e : RowExec(e, "INSERT") \/ RowExec(e, "DELETE"))
                  /\ ~r.began /\ ~r.open /\ db = r.before

\* C14's case: a Migrate with units to run whose Begin failed.
C14_Witness ==
    LET r == run[Main]
    IN  /\ r.op = "Migrate" /\ r.pc = "done" /\ r.result = "begin failed"
        /\ Len(r.toRun) = 2
        /\ r.trace[Len(r.trace)] = <<"Begin", "err">>

\* no tracking key is in more than one row
NoDuplicateRows(d) == \A k \in TableKeys(d) : d.table[k] <= 1

\* C15: under sequential use from an empty table, with candidates of pairwise
\* distinct keys, no tracking key is ever in more than one row.  It is
\* violated: a Migrate whose cursor stopped at an error takes the units
\* whose rows it did not read as unapplied (C8) and inserts their keys again.
C15_NoDuplicateRows == NoDuplicateRows(db)

\* the same, step by step, for the invocations whose read of the tracking
\* table met no error: they add no second row of a key
C15_NoDuplicateRowsWhenRead ==
    [][(run[Main].readFault = "none" /\ NoDuplicateRows(db)) => NoDuplicateRows(db')]_vars

\* C16: a Migrate invokes no Down and issues no DELETE, and no step of a
\* Migrate takes a row away: from one state to the next every tracking key
\* keeps at least the rows it had, so the set of keys only grows; only a
\* step of a migrateDownN takes rows away.
C16_OnlyForward ==
    /\ [](\A p \in DOMAIN run :
             run[p].op = "Migrate" =>
                 /\ Never(run[p], {"Down"})
                 /\ ~Did(run[p], LAMBDA e : RowExec(e, "DELETE"))
                 /\ \A j \in DOMAIN run[p].tx : run[p].tx[j][1] # "delete")
    /\ [][(\A p \in DOMAIN run : run[p].op # "migrateDownN") =>
              /\ TableKeys(db) \subseteq TableKeys(db')
              /\ \A k \in TableKeys(db) : Rows(db', k) >= Rows(db, k)]_vars

\* C16's case: the second Migrate of a behaviour committed two units on a
\* table that had rows: the rows it found are there and two are new.
C16_Witness ==
    LET r == run[Main]
    IN  /\ calls = 2
        /\ r.op = "Migrate" /\ r.pc = "done" /\ r.result = Nil /\ r.n = 2
        /\ r.before.table # EmptyBag
        /\ \A k \in TableKeys(r.before) : Rows(db, k) >= Rows(r.before, k)
        /\ BagCardinality(db.table) = BagCardinality(r.before.table) + 2

\* the dates of the units of s are pairwise different
DistinctDates(s) == \A i, j \in DOMAIN s : Date(s[i]) = Date(s[j]) => i = j

\* d is no later than e: the seconds first, then the nanoseconds
NotAfter(d, e) == d.sec < e.sec \/ (d.sec = e.sec /\ d.nsec <= e.nsec)

\* C17: for a list of units of pairwise different dates, what sortMigrations
\* returns holds each unit of the list once and no other, each date no later
\* than the next; and the list of the caller is, from the call on, what it
\* was before.
C17_Ordering ==
    LET r == run[Main]
    IN  (r.began /\ DistinctDates(r.migs)) =>
            /\ Len(r.sorted) = Len(r.migs)
            /\ BagOfSeq(r.sorted) = BagOfSeq(r.migs)
            /\ \A k \in 1..(Len(r.sorted) - 1) :
                  NotAfter(Date(r.sorted[k]), Date(r.sorted[k + 1]))
            /\ r.list = r.migs

\* C17's case: a list of three units, the latest first and the earliest
\* last, two of them within one second: the sorted copy is the list reversed.
C17_Witness ==
    LET r == run[Main]
    IN  /\ r.began /\ Len(r.migs) = 3 /\ DistinctDates(r.migs)
        /\ Date(r.migs[2]).sec = Date(r.migs[3]).sec
        /\ r.sorted = <<r.migs[3], r.migs[2], r.migs[1]>>
        /\ r.list = r.migs

\* the notification of a step: "Up'd ..." or "Down'd ..."
StepInfo(e) == IsCall(e, "Info") /\ e[2] \in {"Up'd", "Down'd"}

\* the steps that went through, as the statements on the tracking table that
\* did, in order
StepsDone(r) == SelectSeq(r.trace, LAMBDA e : (RowExec(e, "INSERT") \/ RowExec(e, "DELETE"))
                                                  /\ ~Erred(e))

\* the notifications of steps, in order
StepInfos(r) == SelectSeq(r.trace, StepInfo)

\* Every step that went through is followed at once by its notification, every
\* notification follows such a step, and the k-th carries the key of the
\* k-th step, the position pos(k) and the total n.
Notified(r, pos(_)) ==
    LET t == r.trace
    IN  /\ \A k \in DOMAIN t :
              /\ ((RowExec(t[k], "INSERT") \/ RowExec(t[k], "DELETE")) /\ ~Erred(t[k])) =>
                    k + 1 \in DOMAIN t /\ StepInfo(t[k + 1])
              /\ StepInfo(t[k]) =>
                    (RowExec(t[k - 1], "INSERT") \/ RowExec(t[k - 1], "DELETE"))
                        /\ ~Erred(t[k - 1])
        /\ Len(StepInfos(r)) <= r.n
        /\ (r.pc = "done" /\ r.result = Nil) => Len(StepInfos(r)) = r.n
        /\ \A k \in DOMAIN StepInfos(r) :
              /\ k \in DOMAIN StepsDone(r)
              /\ StepInfos(r)[k][3] = StepsDone(r)[k][3]
              /\ StepInfos(r)[k][4] = pos(k)
              /\ StepInfos(r)[k][5] = r.n

\* C18: in a run of n steps, up or down, each step that goes through is
\* followed by one notification and a step that fails by none, and the
\* notification of the k-th step carries the key of its unit, the position
\* k and the total n.  It is violated in the down direction: migrateDownN
\* logs the index i of the unit in the sorted list where migrateUpN logs i + 1.
C18_Notifications == Notified(run[Main], LAMBDA k : k)

\* the up direction alone, as C18 states it
C18_UpNotifications == Up(run[Main]) => Notified(run[Main], LAMBDA k : k)

\* the down direction: all of C18 but the position, which is the index of
\* the unit, counted from 0, in the sorted list
C18_DownNotificationsByIndex ==
    ~Up(run[Main]) => Notified(run[Main], LAMBDA k : Len(run[Main].sorted) - k)

\* the call e ends a transaction
EndsTx(e) == IsCall(e, "Commit") \/ IsCall(e, "Rollback")

\* the call e is made on the transaction
OnTx(e) == e[1] \in {"Up", "Down"} \/ RowExec(e, "INSERT") \/ RowExec(e, "DELETE")

\* C19: an invocation whose Begin went through ends its transaction once: no
\* Commit or Rollback while it runs and the transaction open, one when it has
\* returned and the transaction closed, and that one is its last call: no
\* increment and no statement follows it.  A Rollback comes right after the
\* first call that failed; a Commit after n steps went through and none
\* failed.  Migrate hands over n = len(toRun), and with nothing to run it
\* begins and commits a transaction without a write.
C19_TransactionDiscipline ==
    LET r == run[Main]
        t == r.trace
        ends == SelectSeq(t, EndsTx)
    IN  /\ ~r.began => ends = <<>> /\ ~r.open /\ ~Did(r, OnTx)
        /\ (r.began /\ r.pc # "done") => ends = <<>> /\ r.open
        /\ (r.began /\ r.pc = "done") => Len(ends) = 1 /\ ~r.open /\ EndsTx(t[Len(t)])
        /\ Len(Calls(r, "Begin")) <= 1
        /\ \A k \in DOMAIN t :
              /\ OnTx(t[k]) => \E j \in 1..(k - 1) : t[j] = <<"Begin", "ok">>
              /\ IsCall(t[k], "Rollback") =>
                    /\ OnTx(t[k - 1]) /\ Erred(t[k - 1])
                    /\ \A j \in 1..(k - 2) : ~Erred(t[j])
              /\ IsCall(t[k], "Commit") =>
                    /\ \A j \in 1..(k - 1) : ~Erred(t[j])
                    /\ Len(StepsDone(r)) = r.n
              /\ (OnTx(t[k]) /\ Erred(t[k])) =>
                    k + 1 \in DOMAIN t /\ IsCall(t[k + 1], "Rollback")
        /\ (r.op = "Migrate" /\ r.began) =>
              /\ r.n = Len(r.toRun) /\ r.list = r.toRun
              /\ (r.toRun = <<>> /\ r.pc = "done") =>
                    /\ ~Did(r, OnTx)
                    /\ t[Len(t) - 1] = <<"Begin", "ok">>
                    /\ IsCall(t[Len(t)], "Commit")
                    /\ db = r.before

\* C19's case: a Migrate with nothing to run, on a table with rows, has begun
\* and committed its transaction.
C19_Witness ==
    LET r == run[Main]
    IN  /\ r.op = "Migrate" /\ r.pc = "done" /\ r.result = Nil
        /\ Len(r.migs) = 2 /\ r.toRun = <<>>
        /\ SelectSeq(r.trace, LAMBDA e : e[1] \in {"Begin", "Commit", "Rollback"})
              = << <<"Begin", "ok">>, <<"Commit", "ok">> >>

\* the invocation is a migrateDownN that returned nil and follows, with the
\* same list and the same n, a migrateUpN that returned nil; the units of
\* the list have pairwise distinct keys, none of them in the table before
\* the two calls
RoundTrip(r) ==
    /\ r.op = "migrateDownN" /\ r.pc = "done" /\ r.result = Nil
    /\ r.prev.op = "migrateUpN" /\ r.prev.began /\ r.prev.result = Nil
    /\ DistinctKeys(r.migs)
    /\ \A k \in DOMAIN r.migs : Rows(r.prev.before, dbName(r.migs[k])) = 0

\* C20 as stated: after migrateUpN(list, n) and migrateDownN(list, n) the
\* tracking table is what it was before the two when n = len(list), and is
\* not when n < len(list).  It is violated with n = 0 and a list that is
\* not empty: neither call takes a step and the table is what it was.
C20_RoundTrip ==
    LET r == run[Main]
    IN  RoundTrip(r) =>
            /\ r.n = Len(r.migs) => db.table = r.prev.before.table
            /\ r.n < Len(r.migs) => db.table # r.prev.before.table

\* C20, for n = len(list) and for 0 < n < len(list): in the first case the
\* table is what it was before the two calls; in the second the units the
\* down-run took are not the units the up-run took (which are the first n of
\* the sorted list, the down-run's the last n), the key of the first unit of
\* the sorted list has its row still, and the table is not what it was.
C20_RoundTripOfSteps ==
    LET r == run[Main]
    IN  RoundTrip(r) =>
            /\ r.n = Len(r.migs) =>
                  /\ db.table = r.prev.before.table
                  /\ UnitsOf(Downed(r)) = UnitsOf(r.prev.sorted)
            /\ (0 < r.n /\ r.n < Len(r.migs)) =>
                  /\ db.table # r.prev.before.table
                  /\ Rows(db, dbName(r.prev.sorted[1])) = 1
                  /\ UnitsOf(Downed(r)) # UnitsOf(SubSeq(r.prev.sorted, 1, r.n))
                  /\ r.prev.sorted[1] \notin UnitsOf(Downed(r))
            /\ r.n = 0 => db.table = r.prev.before.table

\* C20's case: the round trip over three units with n = 3, on a table with a
\* row of another key: the up-run left three more rows, the down-run took
\* them away.
C20_Witness ==
    LET r == run[Main]
    IN  /\ RoundTrip(r) /\ r.n = 3
        /\ r.prev.before.table # EmptyBag
        /\ BagCardinality(r.before.table) = BagCardinality(r.prev.before.table) + 3
        /\ db.table = r.prev.before.table

\* the other case of C20: three units and n = 2: the up-run took the first
\* two and the down-run the last two, and the row of the first is left
C20_WitnessPartial ==
    LET r == run[Main]
    IN  /\ RoundTrip(r) /\ r.n = 2 /\ Len(r.migs) = 3
        /\ Downed(r) = <<r.prev.sorted[3], r.prev.sorted[2]>>
        /\ db.table = r.prev.before.table (+) SetToBag({dbName(r.prev.sorted[1])})

\* the candidates of the list s whose key is key
WithKey(s, key) == SelectSeq(s, LAMBDA m : dbName(m) = key)

\* the keys that two or more candidates of the list s share
SharedKeys(s) == { key \in { dbName(s[k]) : k \in DOMAIN s } : Len(WithKey(s, key)) >= 2 }

\* What C21 says of a Migrate whose reconciliation has returned: either every
\* candidate of a shared key is in the work list or none is; none when the key has
\* a row; all when it has none, and then a Migrate that returns nil has
\* invoked the Up of each and left one row of the key for each.
SameKeySameFate(r) ==
    \A key \in SharedKeys(r.migs) :
        /\ WithKey(r.toRun, key) \in { <<>>, WithKey(r.migs, key) }
        /\ Rows(r.before, key) > 0 => WithKey(r.toRun, key) = <<>>
        /\ Rows(r.before, key) = 0 =>
              /\ WithKey(r.toRun, key) = WithKey(r.migs, key)
              /\ (r.pc = "done" /\ r.result = Nil) =>
                    /\ Rows(db, key) = Len(WithKey(r.migs, key))
                    /\ UnitsOf(WithKey(Upped(r), key)) = UnitsOf(WithKey(r.migs, key))
                    /\ Len(WithKey(Upped(r), key)) = Len(WithKey(r.migs, key))

\* C21: candidates of one tracking key fare alike in a Migrate: none is run
\* when the key has a row, all are run and the key is inserted once for
\* each when it has none.  It is violated: when the cursor stops at an
\* error before the row of the key is read, the candidates are run though the
\* key is tracked (C8).
C21_SameKeySameFate ==
    LET r == run[Main]
    IN  (r.op = "Migrate" /\ HasReconciled(r)) => SameKeySameFate(r)

\* the same, for the invocations whose read of the tracking table met no error
C21_SameKeySameFateWhenRead ==
    LET r == run[Main]
    IN  (r.op = "Migrate" /\ HasReconciled(r) /\ r.readFault = "none") => SameKeySameFate(r)

\* the half of C21 that every read leaves standing: the candidates of one key
\* are all in the work list or all left out
C21_AllOrNone ==
    LET r == run[Main]
    IN  (r.op = "Migrate" /\ HasReconciled(r)) =>
            \A key \in SharedKeys(r.migs) :
                WithKey(r.toRun, key) \in { <<>>, WithKey(r.migs, key) }

\* a Migrate over two candidates whose names collide after the cut, the key
\* without a row, has committed: two rows of the key
C21_Collision ==
    LET r == run[Main]
    IN  /\ r.op = "Migrate" /\ r.pc = "done" /\ r.result = Nil /\ r.readFault = "none"
        /\ Len(r.migs) = 2 /\ Name(r.migs[1]) # Name(r.migs[2])
        /\ dbName(r.migs[1]) = dbName(r.migs[2])
        /\ Rows(r.before, dbName(r.migs[1])) = 0
        /\ Rows(db, dbName(r.migs[1])) = 2

=============================================================================
